---- MODULE Spec2Model ----
(***************************************************************************)
(* A model of transitions/extensions/diagrams.py: the diagram of a        *)
(* (hierarchical) state machine, built with pygraphviz and kept in step    *)
(* with the transitions of each model.                                     *)
(*                                                                         *)
(* Representation.                                                         *)
(*  - A state name is the sequence of its separator-joined segments:       *)
(*    "P_Q_x" is <<"P","Q","x">>.  state._name is the last segment,        *)
(*    name.split(separator) is the sequence itself, and 'cluster_' + s is  *)
(*    <<"cluster">> \o s.                                                  *)
(*  - An event name is split the same way: "to_A" is <<"to","A">>, so that *)
(*    label.startswith('to_') is decidable.                                *)
(*  - An edge label is the sequence of the transition labels that were     *)
(*    joined by ' | ' (joining is concatenation of sequences).             *)
(*  - A graph is a record: nodes (name -> attributes), place (name -> the  *)
(*    path of clusters holding the node), clusters (path -> attributes),   *)
(*    edges ((tail, head) -> attributes) and id, the identity of the       *)
(*    pgv.AGraph object.  The graph is not strict, but the code only adds  *)
(*    an edge after has_edge(tail, head) answered no, so a pair of nodes   *)
(*    identifies an edge.                                                  *)
(*  - Of the attributes only those that a role can change are kept (shape, *)
(*    color, fillcolor); height and style are written by 'default' alone.  *)
(*  - A raised exception is a value: every operator that can raise returns *)
(*    a record with an err field, and what was mutated before the raise    *)
(*    stays mutated.                                                       *)
(***************************************************************************)
EXTENDS Integers, Sequences, FiniteSets, TLC

VARIABLES
    states,                 \* machine.states: the registered names, in order
    events,                 \* machine.events: in order of creation
    defs,                   \* history: the add_transition calls, in order
    show_auto_transitions,  \* GraphMachine.show_auto_transitions
    show_conditions,        \* GraphMachine.show_conditions
    model_state,            \* model.state, per model
    graph,                  \* model.graph, per model (NoGraph: no attribute)
    nextId,                 \* the next pgv.AGraph object identity
    last,                   \* the last operation: arguments and outcome
    fired,                  \* history: transitions completed, per model
    ops                     \* number of operations performed so far

vars == <<states, events, defs, show_auto_transitions, show_conditions,
          model_state, graph, nextId, last, fired, ops>>

-----------------------------------------------------------------------------
(* Bounds *)

\* operations performed in one behaviour
MaxOps == 3

\* groups of add_transition calls in a definition given to the builder alone
MaxGroups == 3

-----------------------------------------------------------------------------
(* The state tree (NestedState: name, _name, children) *)

A   == <<"A">>
B   == <<"B">>
P   == <<"P">>
PQ  == <<"P", "Q">>
PQx == <<"P", "Q", "x">>
Py  == <<"P", "y">>
D   == <<"D">>             \* registered later by add_states
Z   == <<"Z">>             \* never registered
None == <<>>

Models == {"m1", "m2"}
ModelOrder == <<"m1", "m2">>     \* machine.models

\* state.children, first child first
Children(name) ==
    IF name = P THEN <<PQ, Py>>
    ELSE IF name = PQ THEN <<PQx>>
    ELSE <<>>

\* state._name
LocalName(name) == name[Len(name)]

Range(s) == {s[i] : i \in 1..Len(s)}

\* machine.get_state(name) raises ValueError for a name that is not registered
IsState(sts, name) == \E i \in 1..Len(sts) : sts[i] = name

\* src = src.children[0]; while len(src.children) > 0: src = src.children[0]
RECURSIVE Leaf(_)
Leaf(name) ==
    IF Len(Children(name)) > 0 THEN Leaf(Children(name)[1]) ELSE name

-----------------------------------------------------------------------------
(* AGraph.style_attributes *)

NodeDefault  == [shape |-> "circle", fillcolor |-> "white", color |-> "black"]
NodeActive   == [color |-> "red", fillcolor |-> "darksalmon", shape |-> "doublecircle"]
NodePrevious == [color |-> "blue", fillcolor |-> "azure2"]
EdgeDefault  == [color |-> "black"]
EdgePrevious == [color |-> "blue"]

style_attributes(kind, style) ==
    IF kind = "node"
    THEN (IF style = "active" THEN NodeActive
          ELSE IF style = "previous" THEN NodePrevious
          ELSE NodeDefault)
    ELSE (IF style = "previous" THEN EdgePrevious ELSE EdgeDefault)

\* attr.update(style_attr): matching keys are overwritten, the others stay
Update(attr, style_attr) == style_attr @@ attr

\* an element carries a role when it has every attribute value of the role
Carries(attr, style_attr) ==
    \A k \in DOMAIN style_attr : k \in DOMAIN attr /\ attr[k] = style_attr[k]

-----------------------------------------------------------------------------
(* Graph Builder: AGraph._add_nodes, _add_edges, _transition_label, get_graph *)

NoGraph == [id |-> 0]

EmptyGraph(id) ==
    [id |-> id, nodes |-> <<>>, place |-> <<>>, clusters |-> <<>>, edges |-> <<>>]

\* f with key k set to v (k may be new)
Put(f, k, v) == (k :> v) @@ f

ClusterName(local) == <<"cluster", local>>

\* b is [seen, g]: the seen list of the diagram object and the graph being built
RECURSIVE _add_nodes(_, _, _)
_add_nodes(sts, container, b) ==
    IF sts = <<>> THEN b
    ELSE
      LET state == Head(sts)
          b1 == IF state \in b.seen THEN b
                ELSE IF Len(Children(state)) > 0 THEN
                    LET sub == Append(container, LocalName(state))
                    IN  _add_nodes(Children(state), sub,
                          [seen |-> b.seen \cup {state},
                           g |-> [b.g EXCEPT !.clusters = Put(@, sub,
                                    [name |-> ClusterName(LocalName(state)),
                                     label |-> state])]])
                ELSE
                    [seen |-> b.seen \cup {state},
                     g |-> [b.g EXCEPT !.nodes = Put(@, state, NodeDefault),
                                       !.place = Put(@, state, container)]]
      IN  _add_nodes(Tail(sts), container, b1)

\* c.func if c.target else '!' + c.func
ConditionText(c) == IF c.target THEN <<c.func>> ELSE <<"!", c.func>>

_transition_label(edge_label, tran, show_cond) ==
    IF show_cond /\ tran.conditions # <<>>
    THEN [event |-> edge_label,
          conditions |-> [i \in 1..Len(tran.conditions) |->
                             ConditionText(tran.conditions[i])]]
    ELSE [event |-> edge_label, conditions |-> <<>>]

\* label.startswith('to_')
StartsWithTo(label) == Len(label) >= 2 /\ label[1] = "to"

RECURSIVE Flatten(_)
Flatten(ss) == IF ss = <<>> THEN <<>> ELSE Head(ss) \o Flatten(Tail(ss))

\* the (label, source, transition) triples of one event, in iteration order
EventItems(event) ==
    Flatten([i \in 1..Len(event.transitions) |->
        [j \in 1..Len(event.transitions[i].trans) |->
            [label |-> event.name,
             source |-> event.transitions[i].source,
             t |-> event.transitions[i].trans[j]]]])

\* a faulty variant of Suppressed: the name of the event is not looked at
SuppressedByCount(machine, event) ==
    /\ ~machine.show_auto_transitions
    /\ Len(event.transitions) = Len(machine.states)

\* lines 89-91: the event is left out of the graph
Suppressed(machine, event) ==
    /\ ~machine.show_auto_transitions
    /\ StartsWithTo(event.name)
    /\ Len(event.transitions) = Len(machine.states)

\* a faulty variant of AddEdge: a merged label goes in front of the label
AddEdgePrepending(machine, r, item) ==
    IF ~IsState(machine.states, item.source) \/ ~IsState(machine.states, item.t.dest)
    THEN [r EXCEPT !.err = "ValueError"]
    ELSE
      LET src == Leaf(item.source)
          dst == Leaf(item.t.dest)
          edge_label == _transition_label(item.label, item.t, machine.show_conditions)
          e == <<src, dst>>
      IN  IF dst = src /\ item.source # item.t.dest THEN r
          ELSE IF e \in DOMAIN r.g.edges
          THEN [r EXCEPT !.g.edges[e].label = <<edge_label>> \o @]
          ELSE [r EXCEPT !.g.edges = Put(@, e,
                    [label |-> <<edge_label>>, ltail |-> <<>>, lhead |-> <<>>,
                     color |-> "", key |-> <<>>])]

\* a faulty variant of AddEdge: a transition from or to an unknown state is left
\* out of the graph without an error
AddEdgeSkippingUnknown(machine, r, item) ==
    IF ~IsState(machine.states, item.source) \/ ~IsState(machine.states, item.t.dest)
    THEN r
    ELSE
      LET src == Leaf(item.source)
          dst == Leaf(item.t.dest)
          edge_label == _transition_label(item.label, item.t, machine.show_conditions)
          e == <<src, dst>>
      IN  IF dst = src /\ item.source # item.t.dest THEN r
          ELSE IF e \in DOMAIN r.g.edges
          THEN [r EXCEPT !.g.edges[e].label = Append(@, edge_label)]
          ELSE [r EXCEPT !.g.edges = Put(@, e,
                    [label |-> <<edge_label>>, ltail |-> <<>>, lhead |-> <<>>,
                     color |-> "", key |-> <<>>])]

\* lines 94-121 for one transition; r is [err, g]
AddEdge(machine, r, item) ==
    IF ~IsState(machine.states, item.source) \/ ~IsState(machine.states, item.t.dest)
    THEN [r EXCEPT !.err = "ValueError"]
    ELSE
      LET composite_src == Len(Children(item.source)) > 0
          composite_dst == Len(Children(item.t.dest)) > 0
          ltail == IF composite_src
                   THEN ClusterName(LocalName(item.source)) ELSE <<>>
          lhead == IF composite_dst
                   THEN <<"cluster">> \o item.t.dest ELSE <<>>
          src == Leaf(item.source)
          dst == Leaf(item.t.dest)
          edge_label == _transition_label(item.label, item.t, machine.show_conditions)
          e == <<src, dst>>
      IN  IF dst = src /\ item.source # item.t.dest THEN r
          ELSE IF e \in DOMAIN r.g.edges
          THEN [r EXCEPT !.g.edges[e].label = Append(@, edge_label)]
          ELSE [r EXCEPT !.g.edges = Put(@, e,
                    [label |-> <<edge_label>>, ltail |-> ltail, lhead |-> lhead,
                     color |-> "", key |-> <<>>])]

RECURSIVE AddItems(_, _, _)
AddItems(machine, items, r) ==
    IF items = <<>> \/ r.err # "none" THEN r
    ELSE AddItems(machine, Tail(items), AddEdge(machine, r, Head(items)))

\* the transitions the builder visits, in the order it visits them
Displayed(machine) ==
    Flatten([i \in 1..Len(machine.events) |->
                 IF Suppressed(machine, machine.events[i]) THEN <<>>
                 ELSE EventItems(machine.events[i])])

_add_edges(machine, g) ==
    AddItems(machine, Displayed(machine), [err |-> "none", g |-> g])

\* AGraph(machine).get_graph(title): [err, g]
get_graph(machine, id) ==
    _add_edges(machine,
               _add_nodes(machine.states, <<>>, [seen |-> {}, g |-> EmptyGraph(id)]).g)

-----------------------------------------------------------------------------
(* Style Applicator: GraphMachine.set_node_style, set_edge_style,          *)
(* set_graph_style, set_node_state, reset_nodes, set_edge_state            *)

\* graph.get_node raises KeyError for a name that is no node
set_node_style(g, node_name, style) ==
    IF node_name \notin DOMAIN g.nodes THEN [err |-> "KeyError", g |-> g]
    ELSE [err |-> "none",
          g |-> [g EXCEPT !.nodes[node_name] =
                    Update(@, style_attributes("node", style))]]

set_edge_style(g, edge, style) ==
    [g EXCEPT !.edges[edge] = Update(@, style_attributes("edge", style))]

\* item.graph_attr.update(...) of the subgraph found at path
set_graph_style(g, path, style) ==
    [g EXCEPT !.clusters[path] = Update(@, style_attributes("node", style))]

\* get_subgraph answers None for a missing cluster; the next lookup on None, or
\* set_graph_style on None, raises AttributeError
set_node_state(g, node_name, state) ==
    IF node_name \in DOMAIN g.nodes THEN set_node_style(g, node_name, state)
    ELSE IF \A n \in 1..Len(node_name) : SubSeq(node_name, 1, n) \in DOMAIN g.clusters
    THEN [err |-> "none", g |-> set_graph_style(g, node_name, state)]
    ELSE [err |-> "AttributeError", g |-> g]

\* a faulty variant of reset_nodes: the nodes keep their style
reset_nodes_keeping_styles(g) == g

reset_nodes(g) ==
    [g EXCEPT !.nodes = [n \in DOMAIN g.nodes |->
                            Update(g.nodes[n], style_attributes("node", "default"))]]

\* a faulty variant of set_edge_state: a missing edge is never added, and the
\* style is applied only when the edge is there
set_edge_state_without_adding(machine, g, edge_from, edge_to, state, label) ==
    LET e  == <<edge_from, edge_to>>
        g2 == [g EXCEPT !.edges = [x \in DOMAIN g.edges |->
                   Update(g.edges[x], style_attributes("edge", "default"))]]
    IN  [err |-> "none",
         g |-> IF e \in DOMAIN g.edges THEN set_edge_style(g2, e, state) ELSE g2]

\* graph.add_edge(edge_from, edge_to, label): the third positional parameter of
\* add_edge is the key of the edge, so the new edge has a key and no label
set_edge_state(machine, g, edge_from, edge_to, state, label) ==
    LET e  == <<edge_from, edge_to>>
        g1 == IF ~machine.show_auto_transitions /\ e \notin DOMAIN g.edges
              THEN [g EXCEPT !.edges = Put(@, e,
                       [label |-> <<>>, ltail |-> <<>>, lhead |-> <<>>,
                        color |-> "", key |-> label])]
              ELSE g
    IN  IF e \notin DOMAIN g1.edges THEN [err |-> "KeyError", g |-> g1]
        ELSE LET g2 == [g1 EXCEPT !.edges = [x \in DOMAIN g1.edges |->
                            Update(g1.edges[x], style_attributes("edge", "default"))]]
             IN  [err |-> "none", g |-> set_edge_style(g2, e, state)]

-----------------------------------------------------------------------------
(* Region-of-Interest Extractor: GraphMachine._graph_roi *)

\* [err, g]: g is the filtered graph, a new object without identity in the model
_graph_roi(g, state) ==
    IF state \notin DOMAIN g.nodes THEN [err |-> "KeyError", g |-> NoGraph]
    ELSE
      LET active == state
          kept == {t \in DOMAIN g.edges :
                     /\ (t[1] = active \/ t[2] = active)
                     /\ \/ t[1] = active
                        \/ g.nodes[t[1]].fillcolor = NodePrevious.fillcolor}
          new_nodes == {active} \cup {IF t[1] = active THEN t[2] ELSE t[1] : t \in kept}
      IN  [err |-> "none",
           g |-> [id |-> 0,
                  nodes |-> [n \in new_nodes |-> g.nodes[n]],
                  place |-> [n \in new_nodes |-> <<>>],
                  clusters |-> <<>>,
                  edges |-> [t \in kept |-> [g.edges[t] EXCEPT !.key = <<>>]]]]

-----------------------------------------------------------------------------
(* Diagram Owner: GraphMachine._get_graph *)

\* a faulty variant of _get_graph: asking for the region of interest builds a
\* new graph
_get_graph_rebuilding_for_roi(machine, g, state, force_new, show_roi, id) ==
    LET need  == g = NoGraph \/ force_new \/ show_roi
        b     == IF need THEN get_graph(machine, id) ELSE [err |-> "none", g |-> g]
        s     == IF need /\ b.err = "none"
                 THEN set_node_state(b.g, state, "active") ELSE b
        after == IF need /\ b.err = "none" THEN s.g ELSE g
        roi   == _graph_roi(after, state)
    IN  IF s.err # "none"
        THEN [err |-> s.err, graph |-> after, ret |-> NoGraph, built |-> after # g]
        ELSE IF ~show_roi
        THEN [err |-> "none", graph |-> after, ret |-> after, built |-> need]
        ELSE [err |-> roi.err, graph |-> after, ret |-> roi.g, built |-> need]

\* a faulty variant of _get_graph: force_new is not honoured, a graph that is
\* there is kept
_get_graph_keeping_graph(machine, g, state, force_new, show_roi, id) ==
    LET need  == g = NoGraph
        b     == IF need THEN get_graph(machine, id) ELSE [err |-> "none", g |-> g]
        s     == IF need /\ b.err = "none"
                 THEN set_node_state(b.g, state, "active") ELSE b
        after == IF need /\ b.err = "none" THEN s.g ELSE g
        roi   == _graph_roi(after, state)
    IN  IF s.err # "none"
        THEN [err |-> s.err, graph |-> after, ret |-> NoGraph, built |-> after # g]
        ELSE IF ~show_roi
        THEN [err |-> "none", graph |-> after, ret |-> after, built |-> need]
        ELSE [err |-> roi.err, graph |-> after, ret |-> roi.g, built |-> need]

\* [err, graph, ret, built]: graph is model.graph afterwards, ret the returned
\* graph, built says whether a pgv.AGraph object (identity id) was created
_get_graph(machine, g, state, force_new, show_roi, id) ==
    LET need  == g = NoGraph \/ force_new
        b     == IF need THEN get_graph(machine, id) ELSE [err |-> "none", g |-> g]
        s     == IF need /\ b.err = "none"
                 THEN set_node_state(b.g, state, "active") ELSE b
        after == IF need /\ b.err = "none" THEN s.g ELSE g
        roi   == _graph_roi(after, state)
    IN  IF s.err # "none"
        THEN [err |-> s.err, graph |-> after, ret |-> NoGraph, built |-> after # g]
        ELSE IF ~show_roi
        THEN [err |-> "none", graph |-> after, ret |-> after, built |-> need]
        ELSE [err |-> roi.err, graph |-> after, ret |-> roi.g, built |-> need]

-----------------------------------------------------------------------------
(* Live State Tracker: TransitionGraphSupport._change_state *)

\* lines 297-316 on model.graph.  The result is [err, g, changed]: g is model.graph
\* afterwards, changed says that line 317 was reached, where the base class's
\* _change_state sets model.state to self.dest.  The states are NestedState
\* objects, so hasattr(source, 'children') holds.
UpdateDiagram(machine, g, source, dest, event_name) ==
    LET Out(err, h) == [err |-> err, g |-> h, changed |-> err = "none"]
    IN
    IF ~IsState(machine.states, dest)
    THEN [err |-> "ValueError", g |-> g, changed |-> FALSE]
    ELSE IF g = NoGraph
    THEN [err |-> "AttributeError", g |-> g, changed |-> FALSE]
    ELSE
      LET g1 == reset_nodes(g)
      IN  IF source = None
          THEN LET a == set_node_state(g1, dest, "active")
               IN  Out(a.err, a.g)
          ELSE IF ~IsState(machine.states, source)
          THEN Out("ValueError", g1)
          ELSE
            LET p == set_node_state(g1, source, "previous")
                e == set_edge_state(machine, p.g, Leaf(source), Leaf(dest),
                                    "previous", event_name)
                a == set_node_state(e.g, Leaf(dest), "active")
            IN  IF p.err # "none" THEN Out(p.err, p.g)
                ELSE IF e.err # "none" THEN Out(e.err, e.g)
                ELSE Out(a.err, a.g)

\* a faulty variant of _change_state: every transition works on the graph of the
\* first model
_change_state_of_first_model(machine, graphs, model, source, dest, event_name) ==
    LET r == UpdateDiagram(machine, graphs[ModelOrder[1]], source, dest, event_name)
    IN  [err |-> r.err, graph |-> [graphs EXCEPT ![ModelOrder[1]] = r.g],
         changed |-> r.changed]

\* model = event_data.model: the graph read and written is the graph of the model
\* the event fired on.  The result is [err, graph, changed], graph being the graph
\* of every model afterwards.
_change_state(machine, graphs, model, source, dest, event_name) ==
    LET r == UpdateDiagram(machine, graphs[model], source, dest, event_name)
    IN  [err |-> r.err, graph |-> [graphs EXCEPT ![model] = r.g],
         changed |-> r.changed]

-----------------------------------------------------------------------------
(* The host machine (core.Machine, core.Transition): what the diagram code *)
(* reads and calls                                                         *)

Machine == [states |-> states, events |-> events,
            show_auto_transitions |-> show_auto_transitions,
            show_conditions |-> show_conditions]

\* Machine.add_transition(trigger, source, dest, conditions): the event is created
\* on its first transition; event.transitions maps a source to its transitions
AddTransitionCore(evs, c) ==
    LET t == [source |-> c.source, dest |-> c.dest, conditions |-> c.conditions]
    IN  IF \E i \in 1..Len(evs) : evs[i].name = c.trigger
        THEN LET i  == CHOOSE i \in 1..Len(evs) : evs[i].name = c.trigger
                 tr == evs[i].transitions
             IN  IF \E j \in 1..Len(tr) : tr[j].source = c.source
                 THEN LET j == CHOOSE j \in 1..Len(tr) : tr[j].source = c.source
                      IN  [evs EXCEPT ![i].transitions[j].trans = Append(@, t)]
                 ELSE [evs EXCEPT ![i].transitions =
                          Append(@, [source |-> c.source, trans |-> <<t>>])]
        ELSE Append(evs, [name |-> c.trigger,
                          transitions |-> <<[source |-> c.source, trans |-> <<t>>]>>])

RECURSIVE Define(_, _)
Define(calls, evs) ==
    IF calls = <<>> THEN evs
    ELSE Define(Tail(calls), AddTransitionCore(evs, Head(calls)))

Call(trigger, source, dest, conditions) ==
    [trigger |-> trigger, source |-> source, dest |-> dest, conditions |-> conditions]

\* add_transition(trigger, '*', dest): one transition from every state
Blanket(trigger, sts, dest) ==
    [i \in 1..Len(sts) |-> Call(trigger, sts[i], dest, <<>>)]

\* the states of the machine at construction, parents before their children
InitialStates == <<A, B, P, PQ, PQx, Py>>

\* machine.initial
Initial == A

\* the transitions of the machine at construction, in definition order
Definition ==
    <<Call(<<"go">>, A, B, <<>>),
      Call(<<"run">>, B, A, <<[func |-> "ready", target |-> FALSE]>>),
      Call(<<"go">>, B, A, <<>>),
      Call(<<"enter">>, B, P, <<>>),
      Call(<<"leave">>, P, A, <<>>),
      Call(<<"dive">>, A, PQ, <<>>),
      Call(<<"up">>, PQ, Py, <<>>),
      Call(<<"first">>, P, PQx, <<>>)>>
    \o Blanket(<<"to", "A">>, InitialStates, A)
    \o Blanket(<<"home">>, InitialStates, Py)

\* the transitions that add_transition may add later
AddMenu ==
    {Call(<<"fresh">>, B, D, <<>>),
     Call(<<"inner">>, PQ, PQx, <<>>),
     Call(<<"jump">>, Py, B, <<>>)}

\* destinations of a transition object without a source
EnterDests == {B, P, Z}

-----------------------------------------------------------------------------
(* Loops over machine.models; r is [err, graph, nextId], the first raise ends  *)
(* the loop                                                                    *)

\* for model in self.models: model.get_graph(force_new=True)
RECURSIVE RebuildModels(_, _, _, _)
RebuildModels(machine, mstate, ms, r) ==
    IF ms = <<>> \/ r.err # "none" THEN r
    ELSE LET m == Head(ms)
             x == _get_graph(machine, r.graph[m], mstate[m], TRUE, FALSE, r.nextId)
         IN  RebuildModels(machine, mstate, Tail(ms),
                 [err |-> x.err,
                  graph |-> [r.graph EXCEPT ![m] = x.graph],
                  nextId |-> IF x.built THEN r.nextId + 1 ELSE r.nextId])

\* GraphMachine.__setstate__: for model in self.models:
\*     graph = self._get_graph(model, title=self.title)
\*     self.set_node_style(graph, model.state, 'active')
RECURSIVE __setstate__(_, _, _, _)
__setstate__(machine, mstate, ms, r) ==
    IF ms = <<>> \/ r.err # "none" THEN r
    ELSE LET m == Head(ms)
             x == _get_graph(machine, r.graph[m], mstate[m], FALSE, FALSE, r.nextId)
             y == IF x.err = "none"
                  THEN set_node_style(x.graph, mstate[m], "active")
                  ELSE [err |-> x.err, g |-> x.graph]
         IN  __setstate__(machine, mstate, Tail(ms),
                 [err |-> y.err,
                  graph |-> [r.graph EXCEPT ![m] = y.g],
                  nextId |-> IF x.built THEN r.nextId + 1 ELSE r.nextId])

\* GraphMachine.__init__, the loop over the models: model.get_graph() and then
\* self.set_node_state(model.graph, self.initial, 'active')
RECURSIVE __init__(_, _, _, _)
__init__(machine, initial, ms, r) ==
    IF ms = <<>> \/ r.err # "none" THEN r
    ELSE LET m == Head(ms)
             x == _get_graph(machine, r.graph[m], initial, FALSE, FALSE, r.nextId)
             y == IF x.err = "none"
                  THEN set_node_state(x.graph, initial, "active")
                  ELSE [err |-> x.err, g |-> x.graph]
         IN  __init__(machine, initial, Tail(ms),
                 [err |-> y.err,
                  graph |-> [r.graph EXCEPT ![m] = y.g],
                  nextId |-> IF x.built THEN r.nextId + 1 ELSE r.nextId])

-----------------------------------------------------------------------------
(* The state machine *)

Op(op, m, source, dest, event, force_new, show_roi, err, ret) ==
    [op |-> op, m |-> m, source |-> source, dest |-> dest, event |-> event,
     force_new |-> force_new, show_roi |-> show_roi, err |-> err, ret |-> ret]

NoGraphs == [m \in Models |-> NoGraph]

\* GraphMachine(states, transitions, initial, model=[m1, m2],
\* show_auto_transitions=...): show_conditions keeps its default, False; a machine
\* whose construction raised does not exist
Init ==
    /\ states = InitialStates
    /\ events = Define(Definition, <<>>)
    /\ defs = Definition
    /\ show_auto_transitions \in BOOLEAN
    /\ show_conditions = FALSE
    /\ \E r \in {__init__(Machine, Initial, ModelOrder,
                           [err |-> "none", graph |-> NoGraphs, nextId |-> 1])} :
             /\ r.err = "none"
             /\ model_state = [m \in Models |-> Initial]
             /\ graph = r.graph
             /\ nextId = r.nextId
    /\ last = Op("init", "", None, None, <<>>, FALSE, FALSE, "none", NoGraph)
    /\ fired = [m \in Models |-> 0]
    /\ ops = 0

\* an event of the machine fires on model m: Event.trigger picks a transition whose
\* source is model.state (its conditions may or may not hold) and executes it
Fire(m) ==
    /\ ops < MaxOps
    /\ \E i \in 1..Len(events) : \E j \in 1..Len(events[i].transitions) :
         /\ events[i].transitions[j].source = model_state[m]
         /\ \E k \in 1..Len(events[i].transitions[j].trans) :
              LET t == events[i].transitions[j].trans[k]
              IN  \E r \in {_change_state(Machine, graph, m, t.source, t.dest,
                                          events[i].name)} :
                  /\ graph' = r.graph
                  /\ model_state' = IF r.changed
                                    THEN [model_state EXCEPT ![m] = t.dest]
                                    ELSE model_state
                  /\ fired' = IF r.changed
                              THEN [fired EXCEPT ![m] = @ + 1] ELSE fired
                  /\ last' = Op("fire", m, t.source, t.dest, events[i].name,
                                FALSE, FALSE, r.err, NoGraph)
    /\ ops' = ops + 1
    /\ UNCHANGED <<states, events, defs, show_auto_transitions, show_conditions, nextId>>

\* a transition object without a source executes on model m
Enter(m) ==
    /\ ops < MaxOps
    /\ \E dest \in EnterDests :
         \E r \in {_change_state(Machine, graph, m, None, dest, <<"enter">>)} :
             /\ graph' = r.graph
             /\ model_state' = IF r.changed
                               THEN [model_state EXCEPT ![m] = dest]
                               ELSE model_state
             /\ fired' = IF r.changed
                         THEN [fired EXCEPT ![m] = @ + 1] ELSE fired
             /\ last' = Op("enter", m, None, dest, <<"enter">>,
                           FALSE, FALSE, r.err, NoGraph)
    /\ ops' = ops + 1
    /\ UNCHANGED <<states, events, defs, show_auto_transitions, show_conditions, nextId>>

\* model.get_graph(force_new=..., show_roi=...)
GetGraph(m) ==
    /\ ops < MaxOps
    /\ \E force_new \in BOOLEAN, show_roi \in BOOLEAN :
         \E r \in {_get_graph(Machine, graph[m], model_state[m],
                               force_new, show_roi, nextId)} :
             /\ graph' = [graph EXCEPT ![m] = r.graph]
             /\ nextId' = IF r.built THEN nextId + 1 ELSE nextId
             /\ last' = Op("get_graph", m, None, None, <<>>,
                           force_new, show_roi, r.err, r.ret)
    /\ ops' = ops + 1
    /\ UNCHANGED <<states, events, defs, show_auto_transitions, show_conditions,
                   model_state, fired>>

\* a faulty variant of add_states: the graphs of the models are kept
add_states_without_rebuild(machine, mstate, g, id) ==
    [err |-> "none", graph |-> g, nextId |-> id]

\* GraphMachine.add_states(D): the base class registers the state, then every
\* model's graph is rebuilt
add_states(machine, mstate, g, id) ==
    RebuildModels(machine, mstate, ModelOrder,
                  [err |-> "none", graph |-> g, nextId |-> id])

AddStates ==
    /\ ops < MaxOps
    /\ ~IsState(states, D)
    /\ states' = Append(states, D)
    /\ \E r \in {add_states([Machine EXCEPT !.states = Append(states, D)],
                              model_state, graph, nextId)} :
           /\ graph' = r.graph
           /\ nextId' = r.nextId
           /\ last' = Op("add_states", "", None, D, <<>>, TRUE, FALSE, r.err, NoGraph)
    /\ ops' = ops + 1
    /\ UNCHANGED <<events, defs, show_auto_transitions, show_conditions,
                   model_state, fired>>

\* GraphMachine.add_transition(trigger, source, dest): the base class registers the
\* transition, then every model's graph is rebuilt
add_transition(machine, mstate, g, id) ==
    RebuildModels(machine, mstate, ModelOrder,
                  [err |-> "none", graph |-> g, nextId |-> id])

AddTransition ==
    /\ ops < MaxOps
    /\ \E c \in AddMenu :
         /\ c \notin Range(defs)
         /\ events' = AddTransitionCore(events, c)
         /\ defs' = Append(defs, c)
         /\ \E r \in {add_transition(
                          [Machine EXCEPT !.events = AddTransitionCore(events, c)],
                          model_state, graph, nextId)} :
                /\ graph' = r.graph
                /\ nextId' = r.nextId
                /\ last' = Op("add_transition", "", c.source, c.dest, c.trigger,
                              TRUE, FALSE, r.err, NoGraph)
    /\ ops' = ops + 1
    /\ UNCHANGED <<states, show_auto_transitions, show_conditions, model_state, fired>>

\* pickle.loads(pickle.dumps(machine)): __getstate__ leaves the graph out (the
\* pgv.AGraph handle is not persisted), __setstate__ rebuilds it for every model
Restore ==
    /\ ops < MaxOps
    /\ \E r \in {__setstate__(Machine, model_state, ModelOrder,
                    [err |-> "none", graph |-> NoGraphs, nextId |-> nextId])} :
           /\ graph' = r.graph
           /\ nextId' = r.nextId
           /\ last' = Op("restore", "", None, None, <<>>, FALSE, FALSE, r.err, NoGraph)
    /\ ops' = ops + 1
    /\ UNCHANGED <<states, events, defs, show_auto_transitions, show_conditions,
                   model_state, fired>>

Next ==
    \/ \E m \in Models : Fire(m)
    \/ \E m \in Models : Enter(m)
    \/ \E m \in Models : GetGraph(m)
    \/ AddStates
    \/ AddTransition
    \/ Restore

Spec == Init /\ [][Next]_vars

-----------------------------------------------------------------------------
(* The Graph Builder on its own: a machine definition drawn from a menu of     *)
(* add_transition calls, and one model's first request for its graph           *)

\* groups of add_transition calls, each made in one go
GroupMenu ==
    {<<Call(<<"go">>, A, B, <<>>)>>,
     <<Call(<<"run">>, A, B, <<[func |-> "ready", target |-> FALSE]>>)>>,
     <<Call(<<"go">>, A, Py, <<>>)>>,
     <<Call(<<"enter">>, B, P, <<>>)>>,
     <<Call(<<"leave">>, P, B, <<>>)>>,
     <<Call(<<"dive">>, A, PQ, <<>>)>>,
     <<Call(<<"first">>, P, PQx, <<>>)>>,
     <<Call(<<"bad">>, A, Z, <<>>)>>,
     Blanket(<<"to", "B">>, InitialStates, B),
     Blanket(<<"to", "P">>, InitialStates, P),
     Blanket(<<"home">>, InitialStates, A)}

\* the definitions of at most n groups
RECURSIVE Definitions(_)
Definitions(n) ==
    IF n = 0 THEN {<<>>}
    ELSE Definitions(n - 1)
         \cup {d \o grp : d \in Definitions(n - 1), grp \in GroupMenu}

InitBuild ==
    /\ states \in {InitialStates, Append(InitialStates, D)}
    /\ defs \in Definitions(MaxGroups)
    /\ events = Define(defs, <<>>)
    /\ show_auto_transitions \in BOOLEAN
    /\ show_conditions \in BOOLEAN
    /\ model_state = [m \in Models |-> Initial]
    /\ graph = NoGraphs
    /\ nextId = 1
    /\ last = Op("init", "", None, None, <<>>, FALSE, FALSE, "none", NoGraph)
    /\ fired = [m \in Models |-> 0]
    /\ ops = 0

\* the first model.get_graph() of a model
FirstGraph(m) ==
    /\ graph[m] = NoGraph
    /\ last.op = "init"
    /\ \E r \in {_get_graph(Machine, graph[m], model_state[m], FALSE, FALSE, nextId)} :
         /\ graph' = [graph EXCEPT ![m] = r.graph]
         /\ nextId' = IF r.built THEN nextId + 1 ELSE nextId
         /\ last' = Op("get_graph", m, None, None, <<>>, FALSE, FALSE, r.err, r.ret)
    /\ ops' = ops + 1
    /\ UNCHANGED <<states, events, defs, show_auto_transitions, show_conditions,
                   model_state, fired>>

NextBuild == \E m \in Models : FirstGraph(m)

SpecBuild == InitBuild /\ [][NextBuild]_vars

-----------------------------------------------------------------------------
(* Properties.  Roles are read off the attributes: an element carries a role   *)
(* when it has every attribute value of the role's style.                      *)

ActiveNodes(g) == {n \in DOMAIN g.nodes : Carries(g.nodes[n], NodeActive)}

PreviousNodes(g) == {n \in DOMAIN g.nodes : Carries(g.nodes[n], NodePrevious)}

PreviousEdges(g) == {e \in DOMAIN g.edges : Carries(g.edges[e], EdgePrevious)}

\* the last operation was a transition on model last.m, and it completed
Completed == last.op \in {"fire", "enter"} /\ last.err = "none"

\* C1: after every transition that completes on a model, exactly one node of that
\* model's graph carries the role active.
C1_ExactlyOneActive ==
    Completed => Cardinality(ActiveNodes(graph[last.m])) = 1

\* C1, the case that fails: a transition without a source into the composite
\* state P completes and no node is active (the cluster of P took the style).
C1_EnterCompositeNoActive ==
    /\ Completed
    /\ last.op = "enter"
    /\ last.dest = P
    /\ ActiveNodes(graph[last.m]) = {}
    /\ Carries(graph[last.m].clusters[P], NodeActive)

\* C2: after the second and every later transition with a source that completes
\* on a model, the role previous is on exactly one node, the resolved leaf of
\* that transition's source, and on no edge other than the one from the resolved
\* source to the resolved destination.
C2_PreviousIsLastTransition ==
    (Completed /\ last.op = "fire" /\ fired[last.m] >= 2) =>
        /\ PreviousNodes(graph[last.m]) = {Leaf(last.source)}
        /\ PreviousEdges(graph[last.m]) \subseteq {<<Leaf(last.source), Leaf(last.dest)>>}

\* C2, the cases that fail: after a self-transition the node is active and no
\* node is previous; after a transition out of a composite state the cluster of
\* the source is previous and no node is.
C2_SelfTransitionNoPrevious ==
    /\ Completed /\ last.op = "fire" /\ fired[last.m] >= 2
    /\ last.source = last.dest
    /\ PreviousNodes(graph[last.m]) = {}

C2_CompositeSourceNoPrevious ==
    /\ Completed /\ last.op = "fire" /\ fired[last.m] >= 2
    /\ Len(Children(last.source)) > 0
    /\ Leaf(last.source) # Leaf(last.dest)
    /\ PreviousNodes(graph[last.m]) = {}
    /\ Carries(graph[last.m].clusters[last.source], NodePrevious)

-----------------------------------------------------------------------------
(* The builder's result, told from the add_transition calls (defs) alone       *)

Built(m) == graph[m] # NoGraph

\* the first call with the trigger of call i, and the first with its trigger and
\* its source
Min(S) == CHOOSE x \in S : \A y \in S : x <= y

FirstOfTrigger(i) ==
    Min({j \in 1..i : defs[j].trigger = defs[i].trigger})

FirstOfSource(i) ==
    Min({j \in 1..i : /\ defs[j].trigger = defs[i].trigger
                      /\ defs[j].source = defs[i].source})

\* call i is visited before call k: events in the order of their creation, in an
\* event the sources in the order of their first transition, then the
\* transitions of a source in the order of their definition
VisitedBefore(i, k) ==
    \/ FirstOfTrigger(i) < FirstOfTrigger(k)
    \/ /\ FirstOfTrigger(i) = FirstOfTrigger(k)
       /\ \/ FirstOfSource(i) < FirstOfSource(k)
          \/ FirstOfSource(i) = FirstOfSource(k) /\ i < k

RECURSIVE InVisitOrder(_)
InVisitOrder(S) ==
    IF S = {} THEN <<>>
    ELSE LET i == CHOOSE i \in S : \A k \in S \ {i} : VisitedBefore(i, k)
         IN  <<i>> \o InVisitOrder(S \ {i})

RECURSIVE InDefinitionOrder(_)
InDefinitionOrder(S) ==
    IF S = {} THEN <<>>
    ELSE LET i == CHOOSE i \in S : \A k \in S : i <= k
         IN  <<i>> \o InDefinitionOrder(S \ {i})

\* call i belongs to an event that the builder leaves out
Hidden(i) ==
    /\ ~show_auto_transitions
    /\ StartsWithTo(defs[i].trigger)
    /\ Cardinality({defs[j].source : j \in {j \in 1..Len(defs) :
                        defs[j].trigger = defs[i].trigger}}) = Len(states)

\* the parent-to-first-child case: different states, one leaf
Degenerate(source, dest) == Leaf(source) = Leaf(dest) /\ source # dest

Pair(c) == <<Leaf(c.source), Leaf(c.dest)>>

\* the calls that are drawn, the calls drawn as edge e, and the drawn pairs
Visible ==
    {i \in 1..Len(defs) : ~Hidden(i) /\ ~Degenerate(defs[i].source, defs[i].dest)}

Drawn(e) == {i \in Visible : Pair(defs[i]) = e}

DrawnPairs == {Pair(defs[i]) : i \in Visible}

LabelOf(i) == _transition_label(defs[i].trigger, defs[i], show_conditions)

Labels(order) == [k \in 1..Len(order) |-> LabelOf(order[k])]

\* the edges that the builder makes for the machine as it is defined now, each
\* with its merged label (the drawn calls are found once, as visible)
DrawnEdges ==
    CHOOSE drawn \in
        {[e \in {Pair(defs[i]) : i \in visible} |->
             Labels(InVisitOrder({i \in visible : Pair(defs[i]) = e}))] :
         visible \in {Visible}} : TRUE

\* C3: a built graph has one edge for every (resolved source leaf, resolved
\* destination leaf) pair that a displayed transition resolves to and no other
\* edge, and the label of the edge is the labels of all the transitions that
\* resolve to the pair, in the order the builder visits them: events in the order
\* of their creation, then sources in the order of their first transition in the
\* event, then the transitions of one source in definition order.
C3_MergedInVisitOrder ==
    \A m \in Models : Built(m) =>
        \A drawn \in {DrawnEdges} :
            /\ DOMAIN graph[m].edges = DOMAIN drawn
            /\ \A e \in DOMAIN drawn : graph[m].edges[e].label = drawn[e]

\* C3 as stated: the label of a merged edge is the transition labels in
\* definition order.
C3_MergedInDefinitionOrder ==
    \A m \in Models : Built(m) =>
        /\ DOMAIN graph[m].edges = DrawnPairs
        /\ \A e \in DOMAIN graph[m].edges :
               graph[m].edges[e].label = Labels(InDefinitionOrder(Drawn(e)))

\* C3, its case: a built graph where transitions of two events share one edge
C3_TwoEventsOneEdge ==
    \E m \in Models : Built(m) /\ \E e \in DOMAIN graph[m].edges :
        \E i, k \in Drawn(e) : defs[i].trigger # defs[k].trigger

\* an event with exactly one transition from each state, all to one target
IsBlanket(event) ==
    /\ {event.transitions[j].source : j \in 1..Len(event.transitions)} = Range(states)
    /\ Len(event.transitions) = Len(states)
    /\ \A j \in 1..Len(event.transitions) :
           /\ Len(event.transitions[j].trans) = 1
           /\ event.transitions[j].trans[1].dest = event.transitions[1].trans[1].dest

BlanketDest(event) == event.transitions[1].trans[1].dest

\* the edges whose label names the event
EdgesOf(g, name) ==
    {e \in DOMAIN g.edges : \E k \in 1..Len(g.edges[e].label) :
                                g.edges[e].label[k].event = name}

\* C4: for an event with one transition from each of the N states to one target,
\* a built graph has no edge for the event when auto transitions are not shown
\* and the event's name starts with 'to_'; otherwise its edges are the distinct
\* (resolved source leaf, resolved target leaf) pairs of its transitions, without
\* the pairs of the parent-to-first-child case.
C4_BlanketEdges ==
    \A m \in Models : Built(m) =>
        \A i \in 1..Len(events) : IsBlanket(events[i]) =>
            EdgesOf(graph[m], events[i].name) =
                IF ~show_auto_transitions /\ StartsWithTo(events[i].name) THEN {}
                ELSE {<<Leaf(s), Leaf(BlanketDest(events[i]))>> :
                         s \in {s \in Range(states) :
                                   ~Degenerate(s, BlanketDest(events[i]))}}

\* C4 as stated: no edge when auto transitions are not shown, and otherwise N
\* edges less the transitions of the parent-to-first-child case.
C4_BlanketEdgeCount ==
    \A m \in Models : Built(m) =>
        \A i \in 1..Len(events) : IsBlanket(events[i]) =>
            Cardinality(EdgesOf(graph[m], events[i].name)) =
                IF ~show_auto_transitions THEN 0
                ELSE Len(states) - Cardinality({s \in Range(states) :
                                        Degenerate(s, BlanketDest(events[i]))})

\* C4, its cases: a built graph of a machine with a blanket event that is left
\* out, and one with a blanket event that is drawn
C4_BlanketBuilt ==
    \E m \in Models : Built(m) /\
        \E i, k \in 1..Len(events) :
            /\ IsBlanket(events[i]) /\ EdgesOf(graph[m], events[i].name) = {}
            /\ IsBlanket(events[k]) /\ EdgesOf(graph[m], events[k].name) # {}

\* C5: asking for the region of interest of a built graph that has an active
\* node, without force_new, gives a graph that holds the active node, whose nodes
\* are nodes of the model's graph and whose edges are edges of it with the same
\* label, and leaves the graph of every model as it was.
C5_RoiIsSubgraph ==
    [][(/\ last'.op = "get_graph" /\ last'.show_roi /\ ~last'.force_new
        /\ Built(last'.m)
        /\ ActiveNodes(graph[last'.m]) # {})
       => /\ last'.err = "none"
          /\ ActiveNodes(graph[last'.m]) \subseteq DOMAIN last'.ret.nodes
          /\ DOMAIN last'.ret.nodes \subseteq DOMAIN graph[last'.m].nodes
          /\ \A e \in DOMAIN last'.ret.edges :
                 /\ e \in DOMAIN graph[last'.m].edges
                 /\ last'.ret.edges[e].label = graph[last'.m].edges[e].label
          /\ graph' = graph]_vars

\* C5, the case that fails: the model is in a composite state, its resolved leaf
\* is the active node, and the request for the region of interest raises KeyError
C5_RoiOfCompositeStateRaises ==
    /\ last.op = "get_graph" /\ last.show_roi /\ ~last.force_new
    /\ last.err = "KeyError"
    /\ Len(Children(model_state[last.m])) > 0
    /\ ActiveNodes(graph[last.m]) = {Leaf(model_state[last.m])}

\* every transition that the builder is to draw joins registered states
WellFormed ==
    \A i \in 1..Len(defs) : ~Hidden(i) =>
        IsState(states, defs[i].source) /\ IsState(states, defs[i].dest)

\* g shows the machine as it is defined now: a node for every registered leaf
\* state, a cluster for every registered composite state, and for every call of
\* visible the edge of its pair, with the label of the call in the edge's label
ShowsDefinition(g, visible) ==
    /\ DOMAIN g.nodes = {s \in Range(states) : Children(s) = <<>>}
    /\ DOMAIN g.clusters = {s \in Range(states) : Children(s) # <<>>}
    /\ \A i \in visible :
           /\ Pair(defs[i]) \in DOMAIN g.edges
           /\ \E k \in 1..Len(g.edges[Pair(defs[i])].label) :
                  g.edges[Pair(defs[i])].label[k] = LabelOf(i)

C7_CachedGraphIsKept ==
    [][last'.op = "get_graph" =>
        /\ (Built(last'.m) /\ ~last'.force_new) =>
              /\ graph' = graph
              /\ nextId' = nextId
              /\ ~last'.show_roi =>
                    last'.err = "none" /\ last'.ret = graph[last'.m]
        /\ (last'.force_new /\ last'.err = "none") =>
              /\ graph'[last'.m] # NoGraph
              /\ \A m \in Models : graph'[last'.m].id # graph[m].id]_vars

\* C7, its case: after a transition of the model, get_graph without force_new
\* returned the region of interest
C7_RoiOfCachedGraph ==
    /\ last.op = "get_graph" /\ ~last.force_new /\ last.show_roi
    /\ last.err = "none"
    /\ fired[last.m] >= 1

\* C8: two models never hold the same graph object, and a transition on one
\* model leaves the graph of every other model as it was.
C8_GraphsAreIsolated ==
    /\ [](\A m1, m2 \in Models :
            (m1 # m2 /\ Built(m1) /\ Built(m2)) => graph[m1].id # graph[m2].id)
    /\ [][last'.op \in {"fire", "enter"} =>
            \A m \in Models \ {last'.m} : graph'[m] = graph[m]]_vars

\* C8, its case: a transition of the second model completes after a transition
\* of the first
C8_BothModelsMoved ==
    /\ Completed /\ last.m = ModelOrder[2]
    /\ fired[ModelOrder[1]] >= 1
    /\ PreviousEdges(graph[ModelOrder[1]]) # {}
    /\ PreviousEdges(graph[ModelOrder[2]]) # {}

\* C9: restoring the machine returns without an error and leaves every model
\* with a graph object made during the restore, in which exactly the resolved
\* leaf of the model's state is active.
C9_RestoreRebuilds ==
    [][last'.op = "restore" =>
        /\ last'.err = "none"
        /\ \A m \in Models :
               /\ graph'[m].id >= nextId
               /\ ActiveNodes(graph'[m]) = {Leaf(model_state'[m])}]_vars

\* C9, the case that fails: a model is in a composite state, the restore raises
\* KeyError and the model's new graph has no active node
C9_RestoreOfCompositeStateRaises ==
    /\ last.op = "restore"
    /\ last.err = "KeyError"
    /\ \E m \in Models :
           /\ Len(Children(model_state[m])) > 0
           /\ Built(m)
           /\ ActiveNodes(graph[m]) = {}

\* a transition that the builder is to draw has a destination that is not
\* registered
UnknownDestDisplayed ==
    \E i \in 1..Len(defs) : ~Hidden(i) /\ ~IsState(states, defs[i].dest)

\* C10: a transition whose destination is not a registered state ends in an
\* error and leaves the model's state as it was; and every operation that builds
\* a graph while a transition to draw has such a destination ends in an error.
C10_UnknownDestRaises ==
    [][/\ (last'.op \in {"fire", "enter"} /\ ~IsState(states', last'.dest)) =>
              /\ last'.err # "none"
              /\ model_state' = model_state
              /\ fired' = fired
       /\ (/\ \/ last'.op \in {"add_states", "add_transition", "restore"}
              \/ last'.op = "get_graph" /\ (last'.force_new \/ ~Built(last'.m))
           /\ UnknownDestDisplayed') =>
              last'.err # "none"]_vars

\* C10, its case: a transition to a state that is not registered was fired and
\* raised ValueError
C10_FiredUnknownDest ==
    /\ last.op = "fire"
    /\ ~IsState(states, last.dest)
    /\ last.err = "ValueError"

-----------------------------------------------------------------------------
(* TransitionGraphSupport._change_state in two steps: the diagram update of    *)
(* lines 297-316, then the call of the base class's _change_state at line 317. *)
(* One transition is in flight at a time; last.op = "update" marks it.         *)

\* a faulty variant of _change_state_update: the base class is called first, so
\* model.state is the destination while the graph is as it was
_change_state_super_first(machine, graphs, mstate, model, source, dest, event_name) ==
    IF ~IsState(machine.states, dest)
    THEN [err |-> "ValueError", graph |-> graphs, state |-> mstate]
    ELSE [err |-> "none", graph |-> graphs,
          state |-> [mstate EXCEPT ![model] = dest]]

\* lines 294-316: [err, graph, state], the graph of every model and the state of
\* every model when line 316 has run or a line before it has raised
_change_state_update(machine, graphs, mstate, model, source, dest, event_name) ==
    LET r == UpdateDiagram(machine, graphs[model], source, dest, event_name)
    IN  [err |-> r.err, graph |-> [graphs EXCEPT ![model] = r.g], state |-> mstate]

\* line 317: the base class's _change_state sets model.state to self.dest
_change_state_super(mstate, model, dest) == [mstate EXCEPT ![model] = dest]

\* the transitions that can execute on model m: those of the events whose source
\* is model.state, and those without a source
Candidates(m) ==
    {[source |-> it.source, dest |-> it.t.dest, event |-> it.label] :
        it \in {it \in Range(Flatten([i \in 1..Len(events) |-> EventItems(events[i])])) :
                   it.source = model_state[m]}}
    \cup {[source |-> None, dest |-> d, event |-> <<"enter">>] : d \in EnterDests}

InFlight == last.op = "update" /\ last.err = "none"

BeginChange(m) ==
    /\ ops < MaxOps
    /\ ~InFlight
    /\ \E t \in Candidates(m) :
         \E r \in {_change_state_update(Machine, graph, model_state, m,
                                        t.source, t.dest, t.event)} :
             /\ graph' = r.graph
             /\ model_state' = r.state
             /\ last' = Op("update", m, t.source, t.dest, t.event,
                           FALSE, FALSE, r.err, NoGraph)
    /\ ops' = ops + 1
    /\ UNCHANGED <<states, events, defs, show_auto_transitions, show_conditions,
                   nextId, fired>>

CompleteChange ==
    /\ InFlight
    /\ model_state' = _change_state_super(model_state, last.m, last.dest)
    /\ fired' = [fired EXCEPT ![last.m] = @ + 1]
    /\ last' = [last EXCEPT !.op = IF last.source = None THEN "enter" ELSE "fire"]
    /\ UNCHANGED <<states, events, defs, show_auto_transitions, show_conditions,
                   graph, nextId, ops>>

NextSteps ==
    \/ \E m \in Models : BeginChange(m)
    \/ CompleteChange

SpecSteps == Init /\ [][NextSteps]_vars

\* C11: a transition completes only right after one finished diagram update of
\* the same model for the same destination; the completing step leaves every
\* graph as the update left it, and the update step leaves the state of every
\* model as it was.  So whenever a model is seen in the new state, its graph has
\* been updated for it: with a source, the resolved leaf of the new state is the
\* active node.
C11_UpdateBeforeStateChange ==
    /\ [][/\ (last'.op \in {"fire", "enter"} \/ model_state' # model_state) =>
                /\ InFlight
                /\ last'.m = last.m /\ last'.dest = last.dest
                /\ graph' = graph
                /\ model_state' = [model_state EXCEPT ![last.m] = last.dest]
                /\ fired' = [fired EXCEPT ![last.m] = @ + 1]
          /\ last'.op = "update" =>
                /\ ~InFlight
                /\ model_state' = model_state
                /\ fired' = fired]_vars
    /\ []((Completed /\ last.op = "fire") =>
            /\ model_state[last.m] = last.dest
            /\ ActiveNodes(graph[last.m]) = {Leaf(model_state[last.m])})

\* C11, its case: the update of a transition is finished, the graph shows the
\* destination's leaf as active, and the model is still in the source state
C11_UpdatedNotYetCompleted ==
    /\ InFlight
    /\ last.source # None
    /\ model_state[last.m] = last.source
    /\ last.source # last.dest
    /\ ActiveNodes(graph[last.m]) = {Leaf(last.dest)}

-----------------------------------------------------------------------------
(* Properties of the roles after an operation *)

\* the models whose graph the last operation worked on
Touched == IF last.m = "" THEN Models ELSE {last.m}

ActiveClusters(g) == {c \in DOMAIN g.clusters : Carries(g.clusters[c], NodeActive)}

\* C12: after every operation that returned, in the graph of every model it
\* worked on, the active node is the resolved leaf of the model's state and no
\* cluster carries the role active.
C12_ActiveOnLeaf ==
    last.err = "none" =>
        \A m \in Touched : Built(m) =>
            /\ ActiveNodes(graph[m]) = {Leaf(model_state[m])}
            /\ ActiveClusters(graph[m]) = {}

\* C12, a case that fails: the model is in a composite state, its graph is
\* rebuilt with force_new, and the cluster of the state is active and no node is
C12_RebuildMarksCluster ==
    /\ last.op = "get_graph" /\ last.force_new /\ last.err = "none"
    /\ Len(Children(model_state[last.m])) > 0
    /\ ActiveNodes(graph[last.m]) = {}
    /\ ActiveClusters(graph[last.m]) = {model_state[last.m]}

\* C13: after a transition with a source completes, every node other than the
\* resolved source and the resolved destination has the default style, every
\* edge other than the one from the resolved source to the resolved destination
\* has the default style, the resolved destination is active and that edge is
\* previous.
C13_OthersAreDefault ==
    (Completed /\ last.op = "fire") =>
        LET g == graph[last.m]
            src == Leaf(last.source)
            dst == Leaf(last.dest)
        IN  /\ \A n \in DOMAIN g.nodes \ {src, dst} : g.nodes[n] = NodeDefault
            /\ \A e \in DOMAIN g.edges \ {<<src, dst>>} :
                   Carries(g.edges[e], EdgeDefault)
            /\ Carries(g.nodes[dst], NodeActive)
            /\ <<src, dst>> \in DOMAIN g.edges
            /\ Carries(g.edges[<<src, dst>>], EdgePrevious)

\* C13, its case: the second transition of a model completed, and the initial
\* state, which was active at first, is neither its source nor its destination
C13_EarlierNodeIsDefault ==
    /\ Completed /\ last.op = "fire"
    /\ fired[last.m] >= 2
    /\ Initial \notin {Leaf(last.source), Leaf(last.dest)}
    /\ graph[last.m].nodes[Initial] = NodeDefault
    /\ \E e \in DOMAIN graph[last.m].edges :
           e[1] = Initial /\ Carries(graph[last.m].edges[e], EdgeDefault)


\* the edge between the resolved leaves of the last transition
TakenEdge == <<Leaf(last.source), Leaf(last.dest)>>

\* C14: after a completed transition whose resolved source and resolved
\* destination are the same leaf, the self-loop edge on that leaf exists, is
\* previous, and is the only edge that is.
C14_SelfLoopIsPrevious ==
    (Completed /\ last.op = "fire" /\ Leaf(last.source) = Leaf(last.dest)) =>
        /\ TakenEdge \in DOMAIN graph[last.m].edges
        /\ PreviousEdges(graph[last.m]) = {TakenEdge}

\* C14, its case: a transition from a composite state to its own first leaf
\* completed, and the self-loop edge, which the builder leaves out, is previous
C14_CompositeToOwnLeaf ==
    /\ Completed /\ last.op = "fire"
    /\ last.source # last.dest /\ Leaf(last.source) = Leaf(last.dest)
    /\ PreviousEdges(graph[last.m]) = {TakenEdge}

\* C15: a transition between two known states, on a model that has a graph,
\* completes without an error, whatever show_auto_transitions is.
C15_KnownStatesNoError ==
    (/\ last.op = "fire" /\ graph[last.m] # NoGraph
     /\ IsState(states, last.source) /\ IsState(states, last.dest))
        => last.err = "none"

\* C15, a case that fails: with show_auto_transitions set, a transition from a
\* composite state to its own first leaf raises KeyError
C15_SkippedEdgeRaises ==
    /\ last.op = "fire" /\ last.err = "KeyError"
    /\ show_auto_transitions
    /\ IsState(states, last.source) /\ IsState(states, last.dest)
    /\ last.source # last.dest /\ Leaf(last.source) = Leaf(last.dest)
    /\ TakenEdge \notin DOMAIN graph[last.m].edges

\* C16: after a completed transition with a source, the label of the edge taken
\* is the name of the event that fired.
C16_LabelIsEventName ==
    (Completed /\ last.op = "fire") =>
        /\ TakenEdge \in DOMAIN graph[last.m].edges
        /\ graph[last.m].edges[TakenEdge].label =
               <<[event |-> last.event, conditions |-> <<>>]>>

\* C16, a case that fails: the edge was added by the update; the name of the
\* event is its key and it has no label
C16_AddedEdgeHasNoLabel ==
    /\ Completed /\ last.op = "fire"
    /\ TakenEdge \in DOMAIN graph[last.m].edges
    /\ graph[last.m].edges[TakenEdge].label = <<>>
    /\ graph[last.m].edges[TakenEdge].key = last.event
    /\ Carries(graph[last.m].edges[TakenEdge], EdgePrevious)

\* C16, the other case that fails: the edge was built for several transitions
\* and keeps its merged label
C16_MergedLabelIsKept ==
    /\ Completed /\ last.op = "fire"
    /\ TakenEdge \in DOMAIN graph[last.m].edges
    /\ Len(graph[last.m].edges[TakenEdge].label) >= 2
    /\ Carries(graph[last.m].edges[TakenEdge], EdgePrevious)


\* the edges the region of interest of g is to hold: those that leave the active
\* node and those that enter it from a node that is previous
RoiEdges(g) ==
    {e \in DOMAIN g.edges : \E a \in ActiveNodes(g) :
        \/ e[1] = a
        \/ e[2] = a /\ Carries(g.nodes[e[1]], NodePrevious)}

\* the region of interest returned holds the active node, the edges of RoiEdges
\* and their ends, and nothing else
RoiIsExact ==
    [][(last'.op = "get_graph" /\ last'.show_roi /\ last'.err = "none")
       => LET g == graph'[last'.m]
          IN  /\ DOMAIN last'.ret.edges = RoiEdges(g)
              /\ DOMAIN last'.ret.nodes =
                     ActiveNodes(g) \cup {e[1] : e \in RoiEdges(g)}
                                    \cup {e[2] : e \in RoiEdges(g)}
              /\ \A n \in DOMAIN last'.ret.nodes : last'.ret.nodes[n] = g.nodes[n]]_vars

\* the region of interest returned right after a completed transition with a
\* source holds the resolved source node and the edge taken
RoiHoldsTransition ==
    [][(/\ last'.op = "get_graph" /\ last'.show_roi /\ ~last'.force_new
        /\ last'.err = "none"
        /\ Completed /\ last.op = "fire" /\ last.m = last'.m)
       => /\ Leaf(last.source) \in DOMAIN last'.ret.nodes
          /\ TakenEdge \in DOMAIN last'.ret.edges]_vars

\* C17: the region of interest holds exactly the active node, every edge that
\* leaves it with its destination, and every edge that enters it from a node
\* that is previous with that node; right after a transition with a source it
\* holds the resolved source node and the edge taken.
C17_RoiContents == RoiIsExact /\ RoiHoldsTransition

\* C17, a case that fails: a region of interest was returned, the edge marked
\* previous in the model's graph enters the active node, and the region holds
\* neither that edge nor its source
C17_TakenEdgeLeftOut ==
    /\ last.op = "get_graph" /\ last.show_roi /\ ~last.force_new
    /\ last.err = "none"
    /\ fired[last.m] >= 1
    /\ \E e \in PreviousEdges(graph[last.m]) :
           /\ e[2] = model_state[last.m]
           /\ ActiveNodes(graph[last.m]) = {e[2]}
           /\ e \notin DOMAIN last.ret.edges
           /\ e[1] \notin DOMAIN last.ret.nodes


-----------------------------------------------------------------------------
(* Properties of the cluster markers and of the placement of the nodes *)

\* the identifiers of the clusters that the node pass made for state s
ClusterIds(g, s) ==
    {g.clusters[c].name : c \in {c \in DOMAIN g.clusters : g.clusters[c].label = s}}

\* the marker of an edge end is the identifier of the cluster of a composite
\* state, and empty for a leaf
IsMarkerOf(g, marker, s) ==
    IF Len(Children(s)) > 0 THEN marker \in ClusterIds(g, s) ELSE marker = <<>>

\* C18: every edge of a built graph joins the resolved leaves of the transition
\* it was created for, its ltail names the cluster of that transition's source
\* when the source is composite and is empty otherwise, and its lhead does the
\* same for the destination.
C18_MarkersNameClusters ==
    \A m \in Models : Built(m) =>
        \A e \in DOMAIN graph[m].edges : \A i \in Drawn(e) :
            (\A k \in Drawn(e) \ {i} : VisitedBefore(i, k)) =>
                /\ e = <<Leaf(defs[i].source), Leaf(defs[i].dest)>>
                /\ IsMarkerOf(graph[m], graph[m].edges[e].ltail, defs[i].source)
                /\ IsMarkerOf(graph[m], graph[m].edges[e].lhead, defs[i].dest)

\* C18, a case that fails: an edge into the nested composite P_Q has an lhead
\* made of the qualified name, which no cluster of the graph has as identifier
C18_HeadNamesNoCluster ==
    \E m \in Models : Built(m) /\
        \E e \in DOMAIN graph[m].edges :
            /\ graph[m].edges[e].lhead = <<"cluster">> \o PQ
            /\ e[2] = Leaf(PQ)
            /\ ClusterIds(graph[m], PQ) = {ClusterName(LocalName(PQ))}
            /\ \A c \in DOMAIN graph[m].clusters :
                   graph[m].clusters[c].name # graph[m].edges[e].lhead

\* the ltail of every edge names the cluster of a composite source
TailsNameClusters ==
    \A m \in Models : Built(m) =>
        \A e \in DOMAIN graph[m].edges : \A i \in Drawn(e) :
            (\A k \in Drawn(e) \ {i} : VisitedBefore(i, k)) =>
                IsMarkerOf(graph[m], graph[m].edges[e].ltail, defs[i].source)


\* the orders in which the machine may enumerate its states
Orders ==
    {o \in [1..Len(InitialStates) -> Range(InitialStates)] :
        \A i, j \in 1..Len(InitialStates) : o[i] = o[j] => i = j}

InitOrder ==
    /\ states \in Orders
    /\ defs = Definition
    /\ events = Define(defs, <<>>)
    /\ show_auto_transitions \in BOOLEAN
    /\ show_conditions \in BOOLEAN
    /\ model_state = [m \in Models |-> Initial]
    /\ graph = NoGraphs
    /\ nextId = 1
    /\ last = Op("init", "", None, None, <<>>, FALSE, FALSE, "none", NoGraph)
    /\ fired = [m \in Models |-> 0]
    /\ ops = 0

NextOrder == \E m \in Models : FirstGraph(m)

SpecOrder == InitOrder /\ [][NextOrder]_vars

\* the name of the parent of a state; the empty name for a top-level state
ParentOf(s) == SubSeq(s, 1, Len(s) - 1)

\* the node pass placed everything: a node for every leaf in the cluster of its
\* parent, one cluster for every composite inside the cluster of its parent
PlacedByTree(g) ==
    /\ DOMAIN g.nodes = {s \in Range(states) : Len(Children(s)) = 0}
    /\ \A n \in DOMAIN g.nodes : g.place[n] = ParentOf(n)
    /\ \A s \in {s \in Range(states) : Len(Children(s)) > 0} :
           {c \in DOMAIN g.clusters : g.clusters[c].label = s} = {s}
    /\ \A c \in DOMAIN g.clusters : g.clusters[c].label = c

\* C19: whatever the order of the machine's states, a built graph has one node
\* for every leaf state, one cluster for every composite state, and each of them
\* lies in the cluster of its parent.
C19_PlacedForEveryOrder ==
    \A m \in Models : Built(m) => PlacedByTree(graph[m])

\* C19, a case that fails: the leaf P_Q_x is enumerated before its parent, and
\* its node lies at the top of the graph, outside the cluster of P_Q
C19_ChildBeforeParent ==
    \E m \in Models :
        /\ Built(m)
        /\ \E i, j \in 1..Len(states) :
               i < j /\ states[i] = PQx /\ states[j] = PQ
        /\ graph[m].place[PQx] = <<>>
        /\ DOMAIN graph[m].nodes = {s \in Range(states) : Len(Children(s)) = 0}

\* every state is enumerated after its parent
ParentsFirst ==
    \A i \in 1..Len(states) : ParentOf(states[i]) # <<>> =>
        \E j \in 1..(i - 1) : states[j] = ParentOf(states[i])

\* when parents come first, everything is placed by the tree
PlacedWhenParentsFirst ==
    ParentsFirst => \A m \in Models : Built(m) => PlacedByTree(graph[m])

\* in every order a state gets one node or one cluster, never two
OneElementForEveryOrder ==
    \A m \in Models : Built(m) =>
        /\ DOMAIN graph[m].nodes = {s \in Range(states) : Len(Children(s)) = 0}
        /\ \A s \in {s \in Range(states) : Len(Children(s)) > 0} :
               Cardinality({c \in DOMAIN graph[m].clusters :
                               graph[m].clusters[c].label = s}) = 1
        /\ Cardinality(DOMAIN graph[m].clusters) =
               Cardinality({s \in Range(states) : Len(Children(s)) > 0})


-----------------------------------------------------------------------------
(* Properties of a rebuild *)

\* the last operation rebuilt the graph of every model it worked on
Rebuilt ==
    \/ last.op \in {"add_states", "add_transition"} /\ last.err = "none"
    \/ last.op = "get_graph" /\ last.force_new /\ last.err \in {"none", "KeyError"}

\* a graph as the builder leaves it, with the role active on state and on
\* nothing else
IsFresh(g, state) ==
    /\ PreviousNodes(g) = {} /\ PreviousEdges(g) = {}
    /\ \A n \in DOMAIN g.nodes \ {state} : g.nodes[n] = NodeDefault
    /\ \A c \in DOMAIN g.clusters \ {state} :
           DOMAIN g.clusters[c] = {"name", "label"}
    /\ state \in DOMAIN g.nodes => Carries(g.nodes[state], NodeActive)
    /\ state \in DOMAIN g.clusters => Carries(g.clusters[state], NodeActive)
    /\ state \in DOMAIN g.nodes \cup DOMAIN g.clusters
    /\ DOMAIN g.edges = DrawnPairs
    /\ \A e \in DOMAIN g.edges : g.edges[e].color = "" /\ g.edges[e].key = <<>>

\* C20: right after a rebuild, in the graph of every model rebuilt, no node and
\* no edge is previous, the only element with a role is the model's current
\* state, which is active, and the edges are the edges that the builder makes
\* for the machine's definition, none of them added by an earlier update.
C20_RebuildDiscardsHistory ==
    Rebuilt => \A m \in Touched : IsFresh(graph[m], model_state[m])

\* C20, its case: the model took the auto transition from the initial state to
\* itself with show_auto_transitions off, which added the self-loop edge; then
\* its graph was rebuilt with force_new and the edge is gone
C20_AddedEdgeIsGone ==
    /\ last.op = "get_graph" /\ last.force_new /\ last.err = "none"
    /\ ~show_auto_transitions
    /\ fired[last.m] = 1 /\ model_state[last.m] = Initial /\ ops = 2
    /\ <<Initial, Initial>> \notin DOMAIN graph[last.m].edges
    /\ PreviousEdges(graph[last.m]) = {}
    /\ ActiveNodes(graph[last.m]) = {Initial}

====
